---- MODULE Spec2Model ----
(***************************************************************************)
(* The scan registry of ospd (ospd/scan.py, class ScanCollection).         *)
(*                                                                         *)
(* Every scan record is a multiprocessing DictProxy: reading one of its    *)
(* top-level fields returns a copy of the stored value, and only an        *)
(* assignment to a top-level field changes what the manager stores.  TLA+  *)
(* values are immutable, so a read is a copy by construction; a mutator    *)
(* changes the table only where the code assigns a field.                  *)
(*                                                                         *)
(* Over the registry stand the command handlers of ospd/command/command.py *)
(* (start_scan, stop_scan, delete_scan, get_scans, get_vts), the handle    *)
(* table of the daemon and the worker processes the handlers spawn.        *)
(***************************************************************************)
EXTENDS Integers, Sequences, FiniteSets, TLC

VARIABLES
    scans_table,    \* self.scans_table: scan_id -> scan_info
    data_manager,   \* self.data_manager: 0 is None, n > 0 the n-th manager built
    managers,       \* how many multiprocessing.Manager() instances were built
    last,           \* the last call made on the registry itself: operation,
                    \* arguments, outcome
    stamped,        \* scan ids stamped by set_progress(100) or
                    \* set_status(STOPPED) since created or last resumed
    pc,             \* where each process stands in its call
    loc,            \* the local variables of each process
    appended,       \* every result the worker appended, in order
    drained,        \* every result a drain returned, in order
    scan_processes, \* daemon.scan_processes: scan_id -> worker handle
    workers,        \* the worker processes spawned so far, by handle
    response,       \* what the step just taken answered to a command
    stream          \* the fragments a streaming response has yielded

concVars == <<pc, loc, appended, drained>>
cmdVars == <<scan_processes, workers, response, stream>>
vars == <<scans_table, data_manager, managers, last, stamped, concVars,
          cmdVars>>

Procs == {"worker", "supervisor"}

----------------------------------------------------------------------------
\* Bounds and input sets

MaxManagers == 2        \* Manager() instances built in one run
MaxResults == 3         \* results buffered in one scan

ScanIds == {"s1", "s2"}
Hosts == {1, 2, 3}      \* host addresses (the last octet)
Times == {1, 2}         \* readings of int(time.time())
ProgressInputs == {-1, 0, 1, 50, 100, 101}

INIT == "INIT"
RUNNING == "RUNNING"
STOPPED == "STOPPED"
FINISHED == "FINISHED"
ScanStatus == {INIT, RUNNING, STOPPED, FINISHED}

None == 0               \* data_manager is None
NoId == ""              \* scan_id absent or empty

EmptyDict == [x \in {} |-> 0]

\* The scan targets of the runs: hosts 1-2, nothing excluded.
Targets == {[hosts |-> << <<1, 2>> >>, exclude_hosts |-> <<>>,
             finished_hosts |-> <<>>]}
OptionInputs == {EmptyDict, [o1 |-> "a"], [o1 |-> "b"]}
VtsInputs == {"vts"}

----------------------------------------------------------------------------
\* Python list helpers

Elems(s) == {s[i] : i \in 1..Len(s)}

\* list.remove(x): drops the first entry equal to x (the caller checks x in s)
ListRemove(s, x) ==
    LET i == CHOOSE k \in 1..Len(s) : s[k] = x /\ \A j \in 1..(k - 1) : s[j] # x
    IN  [k \in 1..(Len(s) - 1) |-> IF k < i THEN s[k] ELSE s[k + 1]]

\* a host-range expression is a sequence of ranges <<lo, hi>>
RangeToList(r) == [i \in 1..(r[2] - r[1] + 1) |-> r[1] + i - 1]

RECURSIVE target_str_to_list(_)
target_str_to_list(expr) ==
    IF expr = <<>> THEN <<>>
    ELSE RangeToList(Head(expr)) \o target_str_to_list(Tail(expr))

----------------------------------------------------------------------------
\* Accessors

id_exists(t, scan_id) == scan_id \in DOMAIN t
get_status(t, scan_id) == t[scan_id].status
get_host_list(t, scan_id) == t[scan_id].target.hosts
get_hosts_finished(t, scan_id) == t[scan_id].finished_hosts

\* scan_info[field] = value on the proxy
SetField(t, scan_id, field, value) == [t EXCEPT ![scan_id][field] = value]

----------------------------------------------------------------------------
\* Python dict and slice helpers

DictSet(d, k, v) == [x \in DOMAIN d \cup {k} |-> IF x = k THEN v ELSE d[x]]
DictDel(d, ks) == [x \in DOMAIN d \ ks |-> d[x]]

Min(a, b) == IF a < b THEN a ELSE b
Max(a, b) == IF a > b THEN a ELSE b

\* s[:n] and s[n:]; a negative n counts from the end
SliceTo(s, n) ==
    LET e == IF n >= 0 THEN Min(n, Len(s)) ELSE Max(Len(s) + n, 0)
    IN  SubSeq(s, 1, e)
SliceFrom(s, n) ==
    LET e == IF n >= 0 THEN Min(n, Len(s)) ELSE Max(Len(s) + n, 0)
    IN  SubSeq(s, e + 1, Len(s))

\* max_res: <<>> is None, <<n>> is the integer n
NoMax == <<>>

----------------------------------------------------------------------------
\* Mutators of one scan record (table in, table out)

MakeResult(result_type, host, name, value) ==
    [type |-> result_type, name |-> name, value |-> value, host |-> host]

\* add_result putting the result in front of the buffer
add_result_in_front(t, scan_id, result) ==
    SetField(t, scan_id, "results", <<result>> \o t[scan_id].results)

add_result(t, scan_id, result) ==
    LET results == Append(t[scan_id].results, result)
    IN  SetField(t, scan_id, "results", results)

remove_hosts_from_target_progress(t, scan_id, hosts) ==
    IF hosts = <<>> THEN t
    ELSE LET target == DictDel(t[scan_id].target_progress, Elems(hosts))
         IN  SetField(t, scan_id, "target_progress", target)

\* set_progress that also accepts 0
set_progress_from_zero(t, scan_id, progress, now) ==
    LET t1 == IF progress >= 0 /\ progress <= 100
              THEN SetField(t, scan_id, "progress", progress)
              ELSE t
    IN  IF progress = 100 THEN SetField(t1, scan_id, "end_time", now) ELSE t1

\* set_progress that stamps end_time from 100 upwards
set_progress_stamps_over(t, scan_id, progress, now) ==
    LET t1 == IF progress > 0 /\ progress <= 100
              THEN SetField(t, scan_id, "progress", progress)
              ELSE t
    IN  IF progress >= 100 THEN SetField(t1, scan_id, "end_time", now) ELSE t1

set_progress(t, scan_id, progress, now) ==
    LET t1 == IF progress > 0 /\ progress <= 100
              THEN SetField(t, scan_id, "progress", progress)
              ELSE t
    IN  IF progress = 100 THEN SetField(t1, scan_id, "end_time", now) ELSE t1

\* set_host_progress that also accepts 0
set_host_progress_from_zero(t, scan_id, host, progress) ==
    IF progress >= 0 /\ progress <= 100
    THEN SetField(t, scan_id, "target_progress",
                  DictSet(t[scan_id].target_progress, host, progress))
    ELSE t

set_host_progress(t, scan_id, host, progress) ==
    IF progress > 0 /\ progress <= 100
    THEN LET host_progresses ==
                 DictSet(t[scan_id].target_progress, host, progress)
         IN  SetField(t, scan_id, "target_progress", host_progresses)
    ELSE t

\* set_host_finished that appends the host whether it is listed or not
set_host_finished_again(t, scan_id, host) ==
    SetField(t, scan_id, "finished_hosts",
             Append(t[scan_id].finished_hosts, host))

set_host_finished(t, scan_id, host) ==
    LET old == t[scan_id].finished_hosts
        finished_hosts == IF host \in Elems(old) THEN old ELSE Append(old, host)
    IN  SetField(t, scan_id, "finished_hosts", finished_hosts)

\* hosts of the target minus the finished ones; list.remove raises
\* ValueError for a finished host that is not in the list
RECURSIVE RemoveEach(_, _)
RemoveEach(list, hosts) ==
    IF hosts = <<>> THEN [raised |-> FALSE, val |-> list]
    ELSE IF Head(hosts) \notin Elems(list) THEN [raised |-> TRUE, val |-> list]
    ELSE RemoveEach(ListRemove(list, Head(hosts)), Tail(hosts))

get_hosts_unfinished(t, scan_id) ==
    RemoveEach(target_str_to_list(get_host_list(t, scan_id)),
               get_hosts_finished(t, scan_id))

\* results_iterator leaving the returned results in the buffer
results_iterator_keeps_drained(t, scan_id, pop_res, max_res) ==
    LET result_aux == t[scan_id].results
    IN  IF pop_res /\ max_res # NoMax /\ max_res[1] # 0
        THEN [t |-> t, ret |-> SliceTo(result_aux, max_res[1])]
        ELSE IF pop_res
        THEN [t |-> SetField(t, scan_id, "results", <<>>), ret |-> result_aux]
        ELSE [t |-> t, ret |-> result_aux]

\* results_iterator applying max_res to a read that does not pop
results_iterator_caps_peek(t, scan_id, pop_res, max_res) ==
    LET result_aux == t[scan_id].results
        n == IF max_res # NoMax /\ max_res[1] # 0 THEN max_res[1]
             ELSE Len(result_aux)
    IN  IF pop_res
        THEN [t |-> SetField(t, scan_id, "results", SliceFrom(result_aux, n)),
              ret |-> SliceTo(result_aux, n)]
        ELSE [t |-> t, ret |-> SliceTo(result_aux, n)]

\* [t |-> the table afterwards, ret |-> the results handed to the caller]
results_iterator(t, scan_id, pop_res, max_res) ==
    LET result_aux == t[scan_id].results
    IN  IF pop_res /\ max_res # NoMax /\ max_res[1] # 0
        THEN [t |-> SetField(t, scan_id, "results",
                             SliceFrom(result_aux, max_res[1])),
              ret |-> SliceTo(result_aux, max_res[1])]
        ELSE IF pop_res
        THEN [t |-> SetField(t, scan_id, "results", <<>>), ret |-> result_aux]
        ELSE [t |-> t, ret |-> result_aux]

remove_single_result(t, scan_id, result) ==
    LET results == ListRemove(t[scan_id].results, result)
    IN  SetField(t, scan_id, "results", results)

\* the loop of del_results_for_stopped_hosts over the iterator's copy
RECURSIVE PurgeLoop(_, _, _, _)
PurgeLoop(t, scan_id, snapshot, unfinished_hosts) ==
    IF snapshot = <<>> THEN t
    ELSE LET result == Head(snapshot)
             t1 == IF result.host \in Elems(unfinished_hosts)
                   THEN remove_single_result(t, scan_id, result)
                   ELSE t
         IN  PurgeLoop(t1, scan_id, Tail(snapshot), unfinished_hosts)

del_results_for_stopped_hosts(t, scan_id) ==
    LET unfinished_hosts == get_hosts_unfinished(t, scan_id)
    IN  IF unfinished_hosts.raised THEN [raised |-> TRUE, t |-> t]
        ELSE [raised |-> FALSE,
              t |-> PurgeLoop(t, scan_id,
                              results_iterator(t, scan_id, FALSE, NoMax).ret,
                              unfinished_hosts.val)]

\* resume_scan storing the options of the call even when they are empty
resume_scan_overwrites(t, scan_id, options) ==
    LET t1 == SetField(t, scan_id, "status", INIT)
    IN  del_results_for_stopped_hosts(SetField(t1, scan_id, "options", options),
                                      scan_id)

resume_scan(t, scan_id, options) ==
    LET t1 == SetField(t, scan_id, "status", INIT)
        t2 == IF DOMAIN options # {}
              THEN SetField(t1, scan_id, "options", options)
              ELSE t1
    IN  del_results_for_stopped_hosts(t2, scan_id)

\* set_status that stamps end_time for FINISHED too
set_status_stamps_finished(t, scan_id, status, now) ==
    LET t1 == SetField(t, scan_id, "status", status)
    IN  IF status \in {STOPPED, FINISHED}
        THEN SetField(t1, scan_id, "end_time", now)
        ELSE t1

set_status(t, scan_id, status, now) ==
    LET t1 == SetField(t, scan_id, "status", status)
    IN  IF status = STOPPED THEN SetField(t1, scan_id, "end_time", now) ELSE t1

\* the copy of options is changed; no field of scan_info is assigned
set_option(t, scan_id, name, value) ==
    LET options == DictSet(t[scan_id].options, name, value)
    IN  t

NewScanInfo(scan_id, target, options, vts, now) ==
    [results |-> <<>>, finished_hosts |-> <<>>, progress |-> 0,
     target_progress |-> EmptyDict, target |-> target, vts |-> vts,
     options |-> options, start_time |-> now, end_time |-> 0,
     status |-> INIT, scan_id |-> scan_id]

\* the table with scan_id bound to scan_info
TablePut(t, scan_id, scan_info) ==
    [x \in DOMAIN t \cup {scan_id} |-> IF x = scan_id THEN scan_info ELSE t[x]]

\* does create_scan take the resume branch
IsResume(t, scan_id) ==
    scan_id # NoId /\ id_exists(t, scan_id) /\ get_status(t, scan_id) = STOPPED

\* [raised, t, dm, managers, ret]; n counts the managers built so far and
\* fresh stands for str(uuid.uuid4())
create_scan(t, dm, n, scan_id, target, options, vts, now, fresh) ==
    LET dm1 == IF dm = None THEN n + 1 ELSE dm
        n1 == IF dm = None THEN n + 1 ELSE n
    IN  IF IsResume(t, scan_id)
        THEN LET r == resume_scan(SetField(t, scan_id, "end_time", 0),
                                  scan_id, options)
             IN  [raised |-> r.raised, t |-> r.t, dm |-> dm1, managers |-> n1,
                  ret |-> scan_id]
        ELSE LET id == IF scan_id = NoId THEN fresh ELSE scan_id
             IN  [raised |-> FALSE,
                  t |-> TablePut(t, id,
                                 NewScanInfo(id, target, options, vts, now)),
                  dm |-> dm1, managers |-> n1, ret |-> id]

\* delete_scan without the RUNNING check
delete_scan_unchecked(t, dm, scan_id) ==
    LET t1 == [x \in DOMAIN t \ {scan_id} |-> t[x]]
    IN  [ret |-> TRUE, t |-> t1, dm |-> IF DOMAIN t1 = {} THEN None ELSE dm]

\* delete_scan that never releases the manager
delete_scan_keeps_manager(t, dm, scan_id) ==
    IF get_status(t, scan_id) = RUNNING
    THEN [ret |-> FALSE, t |-> t, dm |-> dm]
    ELSE [ret |-> TRUE, t |-> [x \in DOMAIN t \ {scan_id} |-> t[x]], dm |-> dm]

\* [ret, t, dm]
delete_scan(t, dm, scan_id) ==
    IF get_status(t, scan_id) = RUNNING
    THEN [ret |-> FALSE, t |-> t, dm |-> dm]
    ELSE LET t1 == [x \in DOMAIN t \ {scan_id} |-> t[x]]
         IN  [ret |-> TRUE, t |-> t1,
              dm |-> IF DOMAIN t1 = {} THEN None ELSE dm]

----------------------------------------------------------------------------
\* The registry calls, one whole call per step

NoCall == [op |-> "none", id |-> NoId, arg |-> <<>>, ret |-> "None"]

Call(op, scan_id, arg, ret) == [op |-> op, id |-> scan_id, arg |-> arg, ret |-> ret]

Bool(b) == IF b THEN "True" ELSE "False"

\* no command was answered
NoResponse ==
    [name |-> "", kind |-> "none", cmd |-> "", status |-> 0, text |-> "",
     scan_id |-> NoId, id |-> NoId, scans |-> EmptyDict, calls |-> <<>>]

Init ==
    /\ scans_table = EmptyDict
    /\ data_manager = None
    /\ managers = 0
    /\ last = NoCall
    /\ stamped = {}
    /\ pc = [p \in Procs |-> "idle"]
    /\ loc = [p \in Procs |-> <<>>]
    /\ appended = <<>>
    /\ drained = <<>>
    /\ scan_processes = EmptyDict
    /\ workers = <<>>
    /\ response = NoResponse
    /\ stream = <<>>

create_scan_of(ids, targets, optionInputs, vtsInputs, times) ==
    \E scan_id \in ids \cup {NoId}, target \in targets,
       options \in optionInputs, vts \in vtsInputs, now \in times :
        \E fresh \in (IF scan_id = NoId THEN ids \ DOMAIN scans_table
                      ELSE {scan_id}) :
            LET r == create_scan(scans_table, data_manager, managers, scan_id,
                                 target, options, vts, now, fresh)
            IN  /\ data_manager = None => managers < MaxManagers
                /\ scans_table' = r.t
                /\ data_manager' = r.dm
                /\ managers' = r.managers
                /\ last' = Call("create_scan", scan_id,
                                [target |-> target, options |-> options,
                                 vts |-> vts],
                                IF r.raised THEN "ValueError" ELSE r.ret)
                /\ stamped' = stamped \ {r.ret}
                /\ UNCHANGED <<concVars, cmdVars>>

create_scan_call(ids, optionInputs, times) ==
    create_scan_of(ids, Targets, optionInputs, VtsInputs, times)

delete_scan_call(ids) ==
    \E scan_id \in ids :
        IF id_exists(scans_table, scan_id)
        THEN LET r == delete_scan(scans_table, data_manager, scan_id)
             IN  /\ scans_table' = r.t
                 /\ data_manager' = r.dm
                 /\ last' = Call("delete_scan", scan_id, <<>>, Bool(r.ret))
                 /\ stamped' = IF r.ret THEN stamped \ {scan_id} ELSE stamped
                 /\ UNCHANGED <<managers, concVars, cmdVars>>
        ELSE /\ last' = Call("delete_scan", scan_id, <<>>, "KeyError")
             /\ UNCHANGED <<scans_table, data_manager, managers, stamped,
                            concVars, cmdVars>>

set_status_call(ids, statuses, times) ==
    \E scan_id \in ids, status \in statuses, now \in times :
        /\ id_exists(scans_table, scan_id)
        /\ scans_table' = set_status(scans_table, scan_id, status, now)
        /\ last' = Call("set_status", scan_id, [status |-> status], "None")
        /\ stamped' = IF status = STOPPED THEN stamped \cup {scan_id}
                      ELSE stamped
        /\ UNCHANGED <<data_manager, managers, concVars, cmdVars>>

set_progress_call(ids, times) ==
    \E scan_id \in ids, progress \in ProgressInputs, now \in times :
        /\ id_exists(scans_table, scan_id)
        /\ scans_table' = set_progress(scans_table, scan_id, progress, now)
        /\ last' = Call("set_progress", scan_id, [progress |-> progress],
                        "None")
        /\ stamped' = IF progress = 100 THEN stamped \cup {scan_id}
                      ELSE stamped
        /\ UNCHANGED <<data_manager, managers, concVars, cmdVars>>

\* a call that changes only the table
TableCall(t, call) ==
    /\ scans_table' = t
    /\ last' = call
    /\ UNCHANGED <<data_manager, managers, stamped, concVars, cmdVars>>

add_result_call(ids, hosts, names, values) ==
    \E scan_id \in ids, host \in hosts, name \in names, value \in values :
        /\ id_exists(scans_table, scan_id)
        /\ Len(scans_table[scan_id].results) < MaxResults
        /\ LET result == MakeResult("LOG", host, name, value)
           IN  IF name = "" /\ value = ""
               THEN TableCall(scans_table,
                              Call("add_result", scan_id, result,
                                   "AssertionError"))
               ELSE TableCall(add_result(scans_table, scan_id, result),
                              Call("add_result", scan_id, result, "None"))

remove_single_result_call(ids) ==
    \E scan_id \in ids :
        /\ id_exists(scans_table, scan_id)
        /\ \E result \in Elems(scans_table[scan_id].results) :
               TableCall(remove_single_result(scans_table, scan_id, result),
                         Call("remove_single_result", scan_id, result, "None"))

set_host_progress_call(ids, hosts, progresses) ==
    \E scan_id \in ids, host \in hosts, progress \in progresses :
        /\ id_exists(scans_table, scan_id)
        /\ TableCall(set_host_progress(scans_table, scan_id, host, progress),
                     Call("set_host_progress", scan_id,
                          [host |-> host, progress |-> progress], "None"))

set_host_finished_call(ids, hosts) ==
    \E scan_id \in ids, host \in hosts :
        /\ id_exists(scans_table, scan_id)
        /\ TableCall(set_host_finished(scans_table, scan_id, host),
                     Call("set_host_finished", scan_id, [host |-> host],
                          "None"))

remove_hosts_from_target_progress_call(ids, hostLists) ==
    \E scan_id \in ids, hosts \in hostLists :
        /\ id_exists(scans_table, scan_id)
        /\ TableCall(remove_hosts_from_target_progress(scans_table, scan_id,
                                                       hosts),
                     Call("remove_hosts_from_target_progress", scan_id,
                          [hosts |-> hosts], "None"))

set_option_call(ids, names, values) ==
    \E scan_id \in ids, name \in names, value \in values :
        /\ id_exists(scans_table, scan_id)
        /\ TableCall(set_option(scans_table, scan_id, name, value),
                     Call("set_option", scan_id,
                          [name |-> name, value |-> value], "None"))

results_iterator_call(ids, pops, maxes) ==
    \E scan_id \in ids, pop_res \in pops, max_res \in maxes :
        /\ id_exists(scans_table, scan_id)
        /\ LET r == results_iterator(scans_table, scan_id, pop_res, max_res)
           IN  TableCall(r.t,
                         Call("results_iterator", scan_id,
                              [pop_res |-> pop_res, max_res |-> max_res,
                               buffered |-> scans_table[scan_id].results,
                               returned |-> r.ret],
                              "iterator"))

\* Spec: the table of scans, two scan ids
CreateScan == create_scan_call(ScanIds, {EmptyDict}, Times)
DeleteScan == delete_scan_call(ScanIds)
SetStatus == set_status_call(ScanIds, ScanStatus, Times)

Next == CreateScan \/ DeleteScan \/ SetStatus

Spec == Init /\ [][Next]_vars

\* SpecProgress: progress and end time of one scan
OneId == {"s1"}

NextProgress ==
    \/ create_scan_call(OneId, {EmptyDict}, Times)
    \/ delete_scan_call(OneId)
    \/ set_status_call(OneId, ScanStatus, Times)
    \/ set_progress_call(OneId, Times)

SpecProgress == Init /\ [][NextProgress]_vars

\* SpecRecord: the mutators of the nested containers of one scan
NextRecord ==
    \/ create_scan_call(OneId, {EmptyDict, [o1 |-> "a"]}, {1})
    \/ add_result_call(OneId, {1, 2}, {"a"}, {""})
    \/ remove_single_result_call(OneId)
    \/ set_host_progress_call(OneId, {1, 2}, {0, 50})
    \/ set_host_finished_call(OneId, {1, 2})
    \/ remove_hosts_from_target_progress_call(OneId, {<<>>, <<1>>})
    \/ set_option_call(OneId, {"o1"}, {"b"})

SpecRecord == Init /\ [][NextRecord]_vars

\* SpecResume: stopping and resuming one scan with buffered results
NextResume ==
    \/ create_scan_call(OneId, {EmptyDict, [o1 |-> "a"]}, {1})
    \/ set_status_call(OneId, {STOPPED}, {1})
    \/ add_result_call(OneId, Hosts, {"a"}, {""})
    \/ set_host_finished_call(OneId, Hosts)

SpecResume == Init /\ [][NextResume]_vars

\* SpecIter: reading and draining the results of one scan
MaxInputs == {NoMax, <<0>>, <<1>>, <<2>>}

NextIter ==
    \/ create_scan_call(OneId, {EmptyDict}, {1})
    \/ add_result_call(OneId, {1}, {"", "a"}, {"", "v"})
    \/ results_iterator_call(OneId, BOOLEAN, MaxInputs)

SpecIter == Init /\ [][NextIter]_vars

----------------------------------------------------------------------------
\* The same calls, one step per read or assignment of a field of the proxy

MaxAppends == 3         \* add_result calls of the worker in one run

Idle(p) == pc[p] = "idle"

Goto(p, label, locals) ==
    /\ pc' = [pc EXCEPT ![p] = label]
    /\ loc' = [loc EXCEPT ![p] = locals]

\* the first scan of a run is created in one step
NewScan(ids, optionInputs, times) ==
    /\ DOMAIN scans_table = {}
    /\ \A p \in Procs : Idle(p)
    /\ create_scan_call(ids, optionInputs, times)

\* add_result, worker side: results = scan_info['results']
AddRead(scan_id, hosts) ==
    \E host \in hosts :
        /\ Idle("worker")
        /\ id_exists(scans_table, scan_id)
        /\ Len(appended) < MaxAppends
        /\ Goto("worker", "add_write",
                [scan_id |-> scan_id,
                 results |-> scans_table[scan_id].results,
                 result |-> MakeResult("LOG", host,
                                       ToString(Len(appended) + 1), "")])
        /\ UNCHANGED <<scans_table, data_manager, managers, last, stamped,
                       appended, drained, cmdVars>>

\* results.append(result); scan_info['results'] = results
AddWrite ==
    /\ pc["worker"] = "add_write"
    /\ scans_table' = SetField(scans_table, loc["worker"].scan_id, "results",
                               Append(loc["worker"].results,
                                      loc["worker"].result))
    /\ appended' = Append(appended, loc["worker"].result)
    /\ Goto("worker", "idle", <<>>)
    /\ UNCHANGED <<data_manager, managers, last, stamped, drained, cmdVars>>

\* results_iterator(pop_res=True), supervisor side:
\* result_aux = scan_info['results']
DrainRead(scan_id, maxes) ==
    \E max_res \in maxes :
        /\ Idle("supervisor")
        /\ id_exists(scans_table, scan_id)
        /\ Goto("supervisor", "drain_write",
                [scan_id |-> scan_id, max_res |-> max_res,
                 result_aux |-> scans_table[scan_id].results])
        /\ UNCHANGED <<scans_table, data_manager, managers, last, stamped,
                       appended, drained, cmdVars>>

\* scan_info['results'] = result_aux[max_res:] (or list()); the call returns
\* result_aux[:max_res] (or result_aux)
DrainWrite ==
    /\ pc["supervisor"] = "drain_write"
    /\ LET l == loc["supervisor"]
           all == l.max_res = NoMax \/ l.max_res[1] = 0
       IN  /\ scans_table' =
                  SetField(scans_table, l.scan_id, "results",
                           IF all THEN <<>>
                           ELSE SliceFrom(l.result_aux, l.max_res[1]))
           /\ drained' = drained \o (IF all THEN l.result_aux
                                     ELSE SliceTo(l.result_aux, l.max_res[1]))
    /\ Goto("supervisor", "idle", <<>>)
    /\ UNCHANGED <<data_manager, managers, last, stamped, appended, cmdVars>>

\* create_scan on a STOPPED scan, supervisor side, the worker being gone:
\* the branch is taken
ResumeStart(scan_id, optionInputs) ==
    \E options \in optionInputs :
        /\ \A p \in Procs : Idle(p)
        /\ IsResume(scans_table, scan_id)
        /\ Goto("supervisor", "resume_end_time",
                [scan_id |-> scan_id, options |-> options])
        /\ UNCHANGED <<scans_table, data_manager, managers, last, stamped,
                       appended, drained, cmdVars>>

\* scan_info['end_time'] = 0
ResumeEndTime ==
    /\ pc["supervisor"] = "resume_end_time"
    /\ scans_table' = SetField(scans_table, loc["supervisor"].scan_id,
                               "end_time", 0)
    /\ stamped' = stamped \ {loc["supervisor"].scan_id}
    /\ Goto("supervisor", "resume_status", loc["supervisor"])
    /\ UNCHANGED <<data_manager, managers, last, appended, drained, cmdVars>>

\* resume_scan: scan_info['status'] = ScanStatus.INIT
ResumeStatus ==
    /\ pc["supervisor"] = "resume_status"
    /\ scans_table' = SetField(scans_table, loc["supervisor"].scan_id,
                               "status", INIT)
    /\ Goto("supervisor", "resume_options", loc["supervisor"])
    /\ UNCHANGED <<data_manager, managers, last, stamped, appended, drained,
                   cmdVars>>

\* if options: scan_info['options'] = options
ResumeOptions ==
    /\ pc["supervisor"] = "resume_options"
    /\ LET l == loc["supervisor"]
       IN  scans_table' = IF DOMAIN l.options # {}
                          THEN SetField(scans_table, l.scan_id, "options",
                                        l.options)
                          ELSE scans_table
    /\ Goto("supervisor", "resume_unfinished", loc["supervisor"])
    /\ UNCHANGED <<data_manager, managers, last, stamped, appended, drained,
                   cmdVars>>

\* del_results_for_stopped_hosts: get_hosts_unfinished, then the iterator
\* over a copy of the results; a ValueError ends the call
ResumeUnfinished ==
    /\ pc["supervisor"] = "resume_unfinished"
    /\ LET l == loc["supervisor"]
           unfinished_hosts == get_hosts_unfinished(scans_table, l.scan_id)
       IN  IF unfinished_hosts.raised
           THEN /\ Goto("supervisor", "idle", <<>>)
                /\ last' = Call("create_scan", l.scan_id,
                                [options |-> l.options], "ValueError")
           ELSE /\ Goto("supervisor", "purge_read",
                        [scan_id |-> l.scan_id, options |-> l.options,
                         unfinished_hosts |-> unfinished_hosts.val,
                         snapshot |-> results_iterator(scans_table, l.scan_id,
                                                       FALSE, NoMax).ret])
                /\ UNCHANGED last
    /\ UNCHANGED <<scans_table, data_manager, managers, stamped, appended,
                   drained, cmdVars>>

\* the loop: for result in snapshot: if result['host'] in unfinished_hosts:
\* remove_single_result reads the results
PurgeRead ==
    /\ pc["supervisor"] = "purge_read"
    /\ LET l == loc["supervisor"]
       IN  IF l.snapshot = <<>>
           THEN /\ Goto("supervisor", "idle", <<>>)
                /\ last' = Call("create_scan", l.scan_id,
                                [options |-> l.options], l.scan_id)
           ELSE /\ IF Head(l.snapshot).host \in Elems(l.unfinished_hosts)
                   THEN Goto("supervisor", "purge_write",
                             [scan_id |-> l.scan_id, options |-> l.options,
                              unfinished_hosts |-> l.unfinished_hosts,
                              snapshot |-> l.snapshot,
                              results |-> scans_table[l.scan_id].results])
                   ELSE Goto("supervisor", "purge_read",
                             [l EXCEPT !.snapshot = Tail(l.snapshot)])
                /\ UNCHANGED last
    /\ UNCHANGED <<scans_table, data_manager, managers, stamped, appended,
                   drained, cmdVars>>

\* results.remove(result); scan_info['results'] = results
PurgeWrite ==
    /\ pc["supervisor"] = "purge_write"
    /\ LET l == loc["supervisor"]
       IN  /\ scans_table' = SetField(scans_table, l.scan_id, "results",
                                      ListRemove(l.results, Head(l.snapshot)))
           /\ Goto("supervisor", "purge_read",
                   [scan_id |-> l.scan_id, options |-> l.options,
                    unfinished_hosts |-> l.unfinished_hosts,
                    snapshot |-> Tail(l.snapshot)])
    /\ UNCHANGED <<data_manager, managers, last, stamped, appended, drained,
                   cmdVars>>

\* a whole call made while no stepwise call is under way
Quiet(call) == (\A p \in Procs : Idle(p)) /\ call

\* SpecDrain: the worker appends results while the supervisor drains them
NextDrain ==
    \/ NewScan(OneId, {EmptyDict}, {1})
    \/ AddRead("s1", {1})
    \/ AddWrite
    \/ DrainRead("s1", {NoMax, <<1>>})
    \/ DrainWrite

SpecDrain == Init /\ [][NextDrain]_vars

\* SpecPurge: a stopped scan is resumed, one field access at a time
ResumeSteps ==
    \/ ResumeStart("s1", {EmptyDict, [o1 |-> "a"]})
    \/ ResumeEndTime
    \/ ResumeStatus
    \/ ResumeOptions
    \/ ResumeUnfinished
    \/ PurgeRead
    \/ PurgeWrite

NextPurge ==
    \/ NewScan(OneId, {EmptyDict}, {1})
    \/ Quiet(set_status_call(OneId, {STOPPED}, {1}))
    \/ Quiet(add_result_call(OneId, Hosts, {"a"}, {""}))
    \/ Quiet(set_host_finished_call(OneId, Hosts))
    \/ ResumeSteps

SpecPurge == Init /\ [][NextPurge]_vars

----------------------------------------------------------------------------
\* Claims checked under Spec

ListedOps == {"create_scan", "set_progress", "set_host_progress",
              "set_host_finished", "add_result", "results_iterator"}

\* C5: once a scan's status is FINISHED, no create_scan, set_progress,
\* set_host_progress, set_host_finished, add_result or results_iterator call
\* changes its status or replaces its record.
C5_FinishedIsFinal ==
    [][\A id \in DOMAIN scans_table :
          (get_status(scans_table, id) = FINISHED /\ last'.op \in ListedOps)
          => /\ id_exists(scans_table', id)
             /\ get_status(scans_table', id) = FINISHED
             /\ scans_table'[id].start_time = scans_table[id].start_time]_vars

\* C6: on an existing scan, delete_scan returns False and changes neither the
\* table nor the manager when the status is RUNNING; for any other status it
\* returns True and the scan_id is gone from the table.
C6_DeleteScan ==
    [][(last'.op = "delete_scan" /\ id_exists(scans_table, last'.id))
       => IF get_status(scans_table, last'.id) = RUNNING
          THEN /\ last'.ret = "False"
               /\ scans_table' = scans_table
               /\ data_manager' = data_manager
          ELSE /\ last'.ret = "True"
               /\ ~id_exists(scans_table', last'.id)]_vars

\* a delete_scan of a RUNNING scan was refused
C6_Witness ==
    /\ last.op = "delete_scan"
    /\ last.ret = "False"
    /\ id_exists(scans_table, last.id)
    /\ get_status(scans_table, last.id) = RUNNING

ManagerMatchesTable == (data_manager = None) <=> (DOMAIN scans_table = {})

\* C7: the manager is None exactly when the table is empty; deleting a scan
\* while others remain keeps the manager; a create_scan on the empty table
\* builds a manager never built before and a record with zeroed counters.
C7_ManagerLifetime ==
    /\ []ManagerMatchesTable
    /\ [][/\ (last'.op = "delete_scan" /\ DOMAIN scans_table' # {})
             => data_manager' = data_manager
          /\ (last'.op = "create_scan" /\ DOMAIN scans_table = {})
             => /\ data_manager' # None
                /\ data_manager' > managers
                /\ scans_table'[last'.ret].results = <<>>
                /\ scans_table'[last'.ret].finished_hosts = <<>>
                /\ scans_table'[last'.ret].progress = 0
                /\ scans_table'[last'.ret].end_time = 0
                /\ scans_table'[last'.ret].status = INIT]_vars

\* a second manager is in use: the first was released with the last scan
C7_Witness ==
    /\ last.op = "create_scan"
    /\ data_manager = 2
    /\ Cardinality(DOMAIN scans_table) = 1

----------------------------------------------------------------------------
\* Claims checked under SpecRecord

\* C1: every mutator of a nested container (add_result, remove_single_result,
\* set_host_progress, set_host_finished, remove_hosts_from_target_progress,
\* set_option) writes the top-level field back, so the next read of the field
\* shows the change.
C1_WriteBack ==
    [][LET c == last'
           old == scans_table[c.id]
           new == scans_table'[c.id]
       IN  /\ (c.op = "add_result" /\ c.ret = "None")
              => new.results = Append(old.results, c.arg)
           /\ c.op = "remove_single_result"
              => new.results = ListRemove(old.results, c.arg)
           /\ (c.op = "set_host_progress" /\ c.arg.progress > 0
                                          /\ c.arg.progress <= 100)
              => /\ c.arg.host \in DOMAIN new.target_progress
                 /\ new.target_progress[c.arg.host] = c.arg.progress
           /\ c.op = "set_host_finished"
              => c.arg.host \in Elems(new.finished_hosts)
           /\ c.op = "remove_hosts_from_target_progress"
              => DOMAIN new.target_progress \cap Elems(c.arg.hosts) = {}
           /\ c.op = "set_option"
              => /\ c.arg.name \in DOMAIN new.options
                 /\ new.options[c.arg.name] = c.arg.value]_vars

----------------------------------------------------------------------------
\* Claims checked under SpecResume

\* hosts of the expanded target list that are not finished
UnfinishedSet(scan_info) ==
    Elems(target_str_to_list(scan_info.target.hosts))
        \ Elems(scan_info.finished_hosts)

KeptResults(scan_info) ==
    LET Keep(r) == r.host \notin UnfinishedSet(scan_info)
    IN  SelectSeq(scan_info.results, Keep)

\* C3: create_scan on a STOPPED scan, whatever its finished hosts and
\* buffered results, leaves status INIT and end_time 0, has removed every
\* result of a host of the target that is not finished, and has kept the
\* other results in their order.
C3_ResumePurges ==
    [][(last'.op = "create_scan" /\ IsResume(scans_table, last'.id))
       => /\ scans_table'[last'.id].status = INIT
          /\ scans_table'[last'.id].end_time = 0
          /\ scans_table'[last'.id].results
                 = KeptResults(scans_table[last'.id])]_vars

----------------------------------------------------------------------------
\* Claims checked under SpecProgress

\* C8: set_progress(id, p) stores p when 0 < p <= 100 and leaves the stored
\* progress unchanged for every other p.
C8_SetProgress ==
    [][last'.op = "set_progress"
       => scans_table'[last'.id].progress
              = IF last'.arg.progress > 0 /\ last'.arg.progress <= 100
                THEN last'.arg.progress
                ELSE scans_table[last'.id].progress]_vars

\* an out-of-range value was given to a scan with progress 50
C8_Witness ==
    /\ last.op = "set_progress"
    /\ last.arg.progress = 101
    /\ scans_table[last.id].progress = 50

\* C9: set_progress(id, 100) sets end_time to a non-zero value; set_progress
\* with any other value leaves end_time unchanged.
C9_EndTimeStamp ==
    [][last'.op = "set_progress"
       => IF last'.arg.progress = 100
          THEN scans_table'[last'.id].end_time # 0
          ELSE scans_table'[last'.id].end_time
                   = scans_table[last'.id].end_time]_vars

\* progress 100 was reported for a scan that is not stopped
C9_Witness ==
    /\ last.op = "set_progress"
    /\ last.arg.progress = 100
    /\ scans_table[last.id].status = RUNNING
    /\ scans_table[last.id].end_time # 0

EndTimeMatchesStamps ==
    \A id \in DOMAIN scans_table :
        (scans_table[id].end_time # 0) <=> (id \in stamped)

\* C10: end_time is non-zero exactly when set_progress(id, 100) or
\* set_status(id, STOPPED) was applied since the record was created or last
\* resumed; set_status with another status never changes end_time.
C10_EndTime ==
    /\ []EndTimeMatchesStamps
    /\ [][(last'.op = "set_status" /\ last'.arg.status # STOPPED)
          => scans_table'[last'.id].end_time
                 = scans_table[last'.id].end_time]_vars

\* a stopped scan was resumed: its end_time is 0 again
C10_Witness ==
    /\ last.op = "create_scan"
    /\ id_exists(scans_table, last.id)
    /\ scans_table[last.id].progress = 50
    /\ scans_table[last.id].end_time = 0
    /\ last.id \notin stamped

----------------------------------------------------------------------------
\* Claims checked under SpecDrain

\* C2: whatever the interleaving of the worker's add_result steps with the
\* supervisor's draining steps, the results drained so far followed by the
\* results still buffered are the results appended, each once and in the
\* order of the appends.
C2_AtomicDrain ==
    ((\A p \in Procs : Idle(p)) /\ id_exists(scans_table, "s1"))
    => drained \o scans_table["s1"].results = appended

----------------------------------------------------------------------------
\* Claims checked under SpecPurge

\* C4: during a resume the results of unfinished hosts are purged before the
\* status goes back to INIT: a scan being resumed never has status INIT
\* while a result of an unfinished host is still buffered.
C4_PurgeBeforeInit ==
    \A id \in DOMAIN scans_table :
        (~Idle("supervisor") /\ loc["supervisor"].scan_id = id
         /\ scans_table[id].status = INIT)
        => \A i \in 1..Len(scans_table[id].results) :
               scans_table[id].results[i].host
                   \notin UnfinishedSet(scans_table[id])

\* What a drain of at most N results hands out and what it leaves, by the
\* positions of the buffer.
DrainsFirst(call, left, N) ==
    LET n == Len(call.arg.buffered)
        k == IF N < n THEN N ELSE n
    IN  /\ call.arg.returned = [i \in 1..k |-> call.arg.buffered[i]]
        /\ left = [i \in 1..(n - k) |-> call.arg.buffered[k + i]]

IsDrain(call) ==
    /\ call.op = "results_iterator"
    /\ call.arg.pop_res
    /\ call.arg.max_res # NoMax

\* C11, as stated: for every buffer of n results and every integer max_res
\* N >= 0, results_iterator with pop_res=True returns the first min(N, n)
\* results in order and leaves the other n - min(N, n), in order.
C11_DrainAnyMax ==
    [][IsDrain(last') /\ last'.arg.max_res[1] >= 0
       => DrainsFirst(last', scans_table'[last'.id].results,
                      last'.arg.max_res[1])]_vars

\* C11, amended: the same for every integer max_res N >= 1 (max_res = 0
\* is read as "no maximum" by the code and drains the whole buffer).
C11_DrainMax ==
    [][IsDrain(last') /\ last'.arg.max_res[1] >= 1
       => DrainsFirst(last', scans_table'[last'.id].results,
                      last'.arg.max_res[1])]_vars

\* a drain of one result out of several, and the rest is still buffered
C11_Witness ==
    /\ IsDrain(last)
    /\ last.arg.max_res = <<1>>
    /\ Len(last.arg.buffered) = 3
    /\ Len(last.arg.returned) = 1
    /\ Len(scans_table[last.id].results) = 2

\* C12: with pop_res=False results_iterator returns the whole buffer in
\* order and leaves it unchanged, whatever max_res is; with pop_res=True
\* and max_res unset it returns the whole buffer and leaves it empty.
C12_PeekAndDrainAll ==
    [][last'.op = "results_iterator"
       => /\ ~last'.arg.pop_res
             => /\ last'.arg.returned = last'.arg.buffered
                /\ scans_table' = scans_table
          /\ last'.arg.pop_res /\ last'.arg.max_res = NoMax
             => /\ last'.arg.returned = last'.arg.buffered
                /\ scans_table'[last'.id].results = <<>>
                /\ scans_table' =
                       SetField(scans_table, last'.id, "results", <<>>)]_vars

\* a read without pop under max_res = 1 of a buffer of three results
C12_Witness ==
    /\ last.op = "results_iterator"
    /\ ~last.arg.pop_res
    /\ last.arg.max_res = <<1>>
    /\ Len(last.arg.returned) = 3
    /\ Len(scans_table[last.id].results) = 3

----------------------------------------------------------------------------
\* The command handlers (ospd/command/command.py) over the daemon

MaxWorkers == 2         \* worker processes spawned in one run

NoAttr == "<absent>"    \* xml.get(...) is None: the attribute is not there
BadId == "not-a-uuid"

\* the scan target parsed from the request
ScanTarget == CHOOSE target \in Targets : TRUE

valid_uuid(scan_id) == scan_id \in ScanIds

\* simple_response_str(cmd, status, text, ...)
Response(cmd, status, text) ==
    [kind |-> "response", cmd |-> cmd, status |-> status, text |-> text]

\* raise OspdCommandError(text, cmd[, status]); status 0: none given
CommandError(cmd, status, text) ==
    [kind |-> "error", cmd |-> cmd, status |-> status, text |-> text]

\* the daemon as a command leaves it:
\* [out, id, scans, calls, t, dm, managers, procs, ws]
Outcome(out, id, scans, calls, t, dm, n, procs, ws) ==
    [out |-> out, id |-> id, scans |-> scans, calls |-> calls, t |-> t,
     dm |-> dm, managers |-> n, procs |-> procs, ws |-> ws]

\* daemon.create_scan hands the call to the registry
daemon_create_scan(t, dm, n, scan_id, target, options, vts, now, fresh) ==
    create_scan(t, dm, n, scan_id, target, options, vts, now, fresh)

\* create_process(func, args) and scan_process.start()
create_process(ws, func, scan_id) ==
    Append(ws, [scan_id |-> scan_id, func |-> func, alive |-> TRUE])

\* start_scan creating the scan before it looks at vt_selection
StartScan_creates_early(t, dm, n, procs, ws, req, now, fresh) ==
    LET cmd == "start_scan"
        keep(out) == Outcome(out, NoId, EmptyDict, <<>>, t, dm, n, procs, ws)
        scan_id == IF req.scan_id = NoAttr THEN NoId ELSE req.scan_id
        c == daemon_create_scan(t, dm, n, scan_id, ScanTarget, EmptyDict,
                                "vts", now, fresh)
    IN  IF ~req.target_attrs /\ ~req.target_element
        THEN keep(CommandError(cmd, 0, "No targets or ports"))
        ELSE IF scan_id # NoId /\ ~valid_uuid(scan_id)
        THEN keep(CommandError(cmd, 0, "Invalid scan_id UUID"))
        ELSE IF ~req.scanner_params
        THEN keep(CommandError(cmd, 0, "No scanner_params element"))
        ELSE IF req.vt_selection = "empty"
        THEN Outcome(CommandError(cmd, 0, "VTs list is empty"), NoId,
                     EmptyDict, <<"create_scan">>, c.t, c.dm, c.managers,
                     procs, ws)
        ELSE Outcome(Response(cmd, 200, "OK"), c.ret, EmptyDict,
                     <<"create_scan", "create_process">>, c.t, c.dm,
                     c.managers, DictSet(procs, c.ret, Len(ws) + 1),
                     create_process(ws, "start_scan", c.ret))

\* StartScan.handle_xml; req is what the handler reads of the request
StartScan_handle_xml(t, dm, n, procs, ws, req, now, fresh) ==
    LET cmd == "start_scan"
        keep(out) == Outcome(out, NoId, EmptyDict, <<>>, t, dm, n, procs, ws)
        scan_id == IF req.scan_id = NoAttr THEN NoId ELSE req.scan_id
        scan_func == IF req.dry_run THEN "dry_run_scan" ELSE "start_scan"
        \* scan_params is None for a dry run, the processed params otherwise;
        \* both are kept as a dict, an empty one for None
        scan_params == IF req.dry_run THEN EmptyDict ELSE req.params
        vt_selection == IF req.vt_selection = "absent" THEN "none"
                        ELSE req.vt_selection
        c == daemon_create_scan(t, dm, n, scan_id, ScanTarget, scan_params,
                                vt_selection, now, fresh)
    IN  IF ~req.target_attrs /\ ~req.target_element
        THEN keep(CommandError(cmd, 0, "No targets or ports"))
        ELSE IF scan_id # NoId /\ ~valid_uuid(scan_id)
        THEN keep(CommandError(cmd, 0, "Invalid scan_id UUID"))
        ELSE IF ~req.scanner_params
        THEN keep(CommandError(cmd, 0, "No scanner_params element"))
        ELSE IF req.vt_selection = "empty"
        THEN keep(CommandError(cmd, 0, "VTs list is empty"))
        ELSE IF c.raised
        THEN Outcome([kind |-> "exception", cmd |-> cmd, status |-> 0,
                      text |-> "ValueError"], NoId, EmptyDict,
                     <<"create_scan">>, c.t, c.dm, c.managers, procs, ws)
        ELSE IF c.ret = NoId
        THEN Outcome(Response(cmd, 100, "Continue"), scan_id, EmptyDict,
                     <<"create_scan">>, c.t, c.dm, c.managers, procs, ws)
        ELSE Outcome(Response(cmd, 200, "OK"), c.ret, EmptyDict,
                     <<"create_scan", "create_process">>, c.t, c.dm,
                     c.managers, DictSet(procs, c.ret, Len(ws) + 1),
                     create_process(ws, scan_func, c.ret))

\* the scans whose end_time a command leaves stamped
StampedAfter(t) ==
    {x \in DOMAIN t : t[x].end_time # 0}

\* a command handled in one step by the handler registered as name: the
\* daemon and the response afterwards
Answer(name, o, scan_id) ==
    /\ scans_table' = o.t
    /\ data_manager' = o.dm
    /\ managers' = o.managers
    /\ scan_processes' = o.procs
    /\ workers' = o.ws
    /\ stamped' = StampedAfter(o.t)
    /\ response' = [name |-> name, kind |-> o.out.kind, cmd |-> o.out.cmd,
                    status |-> o.out.status, text |-> o.out.text,
                    scan_id |-> scan_id, id |-> o.id, scans |-> o.scans,
                    calls |-> o.calls]
    /\ UNCHANGED <<last, stream>>

StartRequests(ids, vtSelections, dryRuns) ==
    [target_attrs : BOOLEAN, target_element : BOOLEAN,
     scan_id : ids \cup {NoAttr, NoId, BadId}, scanner_params : BOOLEAN,
     params : {EmptyDict}, vt_selection : vtSelections, dry_run : dryRuns]

StartScanCommand(ids, vtSelections, dryRuns, times) ==
    \E req \in StartRequests(ids, vtSelections, dryRuns), now \in times :
        \E fresh \in (IF req.scan_id \in {NoAttr, NoId}
                      THEN ids \ DOMAIN scans_table ELSE {req.scan_id}) :
            /\ Idle("supervisor")
            /\ Len(workers) < MaxWorkers
            /\ data_manager = None => managers < MaxManagers
            /\ Answer("start_scan",
                      StartScan_handle_xml(scans_table, data_manager, managers,
                                           scan_processes, workers, req, now,
                                           fresh),
                      req.scan_id)
            /\ UNCHANGED concVars

\* daemon.scan_exists
scan_exists(t, scan_id) == id_exists(t, scan_id)

\* daemon.check_scan_process: a scan whose registered worker has exited
\* while the scan was not over is marked STOPPED
check_scan_process(t, procs, ws, scan_id, now) ==
    IF /\ scan_id \in DOMAIN procs
       /\ ~ws[procs[scan_id]].alive
       /\ get_status(t, scan_id) \notin {STOPPED, FINISHED}
    THEN set_status(t, scan_id, STOPPED, now)
    ELSE t

\* daemon.delete_scan hands the call to the registry
daemon_delete_scan(t, dm, scan_id) == delete_scan(t, dm, scan_id)

\* delete_scan answering 200 whatever the registry answers
DeleteScan_ignores_refusal(t, dm, n, procs, ws, scan_id, now) ==
    IF scan_id = NoAttr
    THEN Outcome(Response("delete_scan", 404, "No scan_id attribute"), NoId,
                 EmptyDict, <<>>, t, dm, n, procs, ws)
    ELSE IF ~scan_exists(t, scan_id)
    THEN Outcome(Response("delete_scan", 404, "Failed to find scan"), NoId,
                 EmptyDict, <<>>, t, dm, n, procs, ws)
    ELSE LET t1 == check_scan_process(t, procs, ws, scan_id, now)
             d == daemon_delete_scan(t1, dm, scan_id)
         IN  Outcome(Response("delete_scan", 200, "OK"), NoId, EmptyDict,
                     <<"check_scan_process", "delete_scan">>, d.t, d.dm, n,
                     procs, ws)

\* DeleteScan.handle_xml
DeleteScan_handle_xml(t, dm, n, procs, ws, scan_id, now) ==
    IF scan_id = NoAttr
    THEN Outcome(Response("delete_scan", 404, "No scan_id attribute"), NoId,
                 EmptyDict, <<>>, t, dm, n, procs, ws)
    ELSE IF ~scan_exists(t, scan_id)
    THEN Outcome(Response("delete_scan", 404, "Failed to find scan"), NoId,
                 EmptyDict, <<>>, t, dm, n, procs, ws)
    ELSE LET t1 == check_scan_process(t, procs, ws, scan_id, now)
             d == daemon_delete_scan(t1, dm, scan_id)
         IN  Outcome(IF d.ret THEN Response("delete_scan", 200, "OK")
                     ELSE CommandError("delete_scan", 0, "Scan in progress"),
                     NoId, EmptyDict, <<"check_scan_process", "delete_scan">>,
                     d.t, d.dm, n, procs, ws)

DeleteScanCommand(ids, times) ==
    \E scan_id \in ids \cup {NoAttr, NoId, BadId}, now \in times :
        /\ Idle("supervisor")
        /\ Answer("delete_scan",
                  DeleteScan_handle_xml(scans_table, data_manager, managers,
                                        scan_processes, workers, scan_id, now),
                  scan_id)
        /\ UNCHANGED concVars

\* daemon.get_scan_xml: the report of one scan, [t, status]; the results
\* are read, and drained under pop_res, only for a detailed report
get_scan_xml(t, scan_id, details, pop_res, max_res) ==
    [t |-> IF details
           THEN results_iterator(t, scan_id, pop_res, max_res).t
           ELSE t,
     status |-> get_status(t, scan_id)]

\* one scan of get_scans without the check of its process
GetScans_one_blind(t, procs, ws, scan_id, details, pop_res, max_res, now) ==
    get_scan_xml(t, scan_id, details, pop_res, max_res)

\* one scan of get_scans: [t, status]
GetScans_one(t, procs, ws, scan_id, details, pop_res, max_res, now) ==
    get_scan_xml(check_scan_process(t, procs, ws, scan_id, now), scan_id,
                 details, pop_res, max_res)

\* the loop over ids_iterator(): [t, scans]
RECURSIVE GetScans_all(_, _, _, _, _, _, _, _, _)
GetScans_all(t, procs, ws, ids, scans, details, pop_res, max_res, now) ==
    IF ids = {} THEN [t |-> t, scans |-> scans]
    ELSE LET scan_id == CHOOSE x \in ids : TRUE
             r == GetScans_one(t, procs, ws, scan_id, details, pop_res,
                               max_res, now)
         IN  GetScans_all(r.t, procs, ws, ids \ {scan_id},
                          DictSet(scans, scan_id, r.status), details, pop_res,
                          max_res, now)

\* GetScans.handle_xml; pop_results and max_results are parsed only for a
\* detailed report
GetScans_handle_xml(t, dm, n, procs, ws, req, now) ==
    LET scan_id == IF req.scan_id = NoAttr THEN NoId ELSE req.scan_id
        details == req.details # "0"
        pop_res == req.pop_results = "1"
        r == IF scan_id # NoId
             THEN LET one == GetScans_one(t, procs, ws, scan_id, details,
                                          pop_res, req.max_results, now)
                  IN  [t |-> one.t,
                       scans |-> DictSet(EmptyDict, scan_id, one.status)]
             ELSE GetScans_all(t, procs, ws, DOMAIN t, EmptyDict, details,
                               pop_res, req.max_results, now)
    IN  IF scan_id # NoId /\ scan_id \notin DOMAIN t
        THEN Outcome(Response("get_scans", 404, "Failed to find scan"), NoId,
                     EmptyDict, <<>>, t, dm, n, procs, ws)
        ELSE Outcome(Response("get_scans", 200, "OK"), NoId, r.scans,
                     IF DOMAIN r.scans = {} THEN <<>>
                     ELSE <<"check_scan_process", "get_scan_xml">>,
                     r.t, dm, n, procs, ws)

GetScansRequests(ids, maxes) ==
    [scan_id : ids \cup {NoAttr, NoId, BadId}, details : {NoAttr, "0"},
     pop_results : {NoAttr, "1"}, max_results : maxes]

GetScansCommand(ids, maxes, times) ==
    \E req \in GetScansRequests(ids, maxes), now \in times :
        /\ Idle("supervisor")
        /\ Answer("get_scans",
                  GetScans_handle_xml(scans_table, data_manager, managers,
                                      scan_processes, workers, req, now),
                  req.scan_id)
        /\ UNCHANGED concVars

\* daemon.stop_scan: the registry is told to stop the scan
daemon_stop_scan(t, scan_id, now) == set_status(t, scan_id, STOPPED, now)

\* a join that returns at once
StopScan_join_no_wait(procs, ws, scan_id) == TRUE

\* scan_processes[scan_id].join() has returned, or there is no such handle
StopScan_join_returns(procs, ws, scan_id) ==
    scan_id \in DOMAIN procs => ~ws[procs[scan_id]].alive

\* a step inside a command or of a worker: nothing is answered
Silent ==
    /\ response' = NoResponse
    /\ UNCHANGED <<last, stream, appended, drained>>

\* StopScan.handle_xml up to daemon.stop_scan(scan_id)
StopScanSignal(ids, times) ==
    \E scan_id \in ids \cup {NoAttr, NoId}, now \in times :
        /\ Idle("supervisor")
        /\ IF scan_id \in {NoAttr, NoId}
           THEN /\ Answer("stop_scan",
                          Outcome(CommandError("stop_scan", 0,
                                               "No scan_id attribute"),
                                  NoId, EmptyDict, <<>>, scans_table,
                                  data_manager, managers, scan_processes,
                                  workers),
                          scan_id)
                /\ UNCHANGED concVars
           ELSE IF ~scan_exists(scans_table, scan_id)
           THEN /\ Answer("stop_scan",
                          Outcome([kind |-> "exception", cmd |-> "stop_scan",
                                   status |-> 0, text |-> "KeyError"],
                                  NoId, EmptyDict, <<"stop_scan">>,
                                  scans_table, data_manager, managers,
                                  scan_processes, workers),
                          scan_id)
                /\ UNCHANGED concVars
           ELSE /\ scans_table' = daemon_stop_scan(scans_table, scan_id, now)
                /\ stamped' = stamped \cup {scan_id}
                /\ Goto("supervisor", "stop_join", [scan_id |-> scan_id])
                /\ Silent
                /\ UNCHANGED <<data_manager, managers, scan_processes,
                               workers>>

\* the handler waits in join()
StopScanJoin ==
    /\ pc["supervisor"] = "stop_join"
    /\ StopScan_join_returns(scan_processes, workers,
                             loc["supervisor"].scan_id)
    /\ Goto("supervisor", "stop_respond", loc["supervisor"])
    /\ Silent
    /\ UNCHANGED <<scans_table, data_manager, managers, stamped,
                   scan_processes, workers>>

\* return simple_response_str('stop_scan', 200, 'OK')
StopScanRespond ==
    /\ pc["supervisor"] = "stop_respond"
    /\ response' = [name |-> "stop_scan", kind |-> "response",
                    cmd |-> "stop_scan", status |-> 200,
                    text |-> "OK", scan_id |-> loc["supervisor"].scan_id,
                    id |-> NoId, scans |-> EmptyDict,
                    calls |-> <<"stop_scan", "join">>]
    /\ Goto("supervisor", "idle", <<>>)
    /\ UNCHANGED <<scans_table, data_manager, managers, last, stamped,
                   appended, drained, scan_processes, workers, stream>>

\* The worker processes: the scan function takes the scan from INIT to
\* RUNNING and from RUNNING to FINISHED; the process may exit at any time
\* (it ends, it fails, or it follows a stop).
WorkerStep(w, t) ==
    /\ workers[w].alive
    /\ scans_table' = t
    /\ stamped' = StampedAfter(t)
    /\ Silent
    /\ UNCHANGED <<data_manager, managers, pc, loc, scan_processes, workers>>

WorkerRuns ==
    \E w \in 1..Len(workers) :
        /\ id_exists(scans_table, workers[w].scan_id)
        /\ get_status(scans_table, workers[w].scan_id) = INIT
        /\ WorkerStep(w, set_status(scans_table, workers[w].scan_id, RUNNING,
                                    0))

WorkerFinishes(times) ==
    \E w \in 1..Len(workers), now \in times :
        /\ id_exists(scans_table, workers[w].scan_id)
        /\ get_status(scans_table, workers[w].scan_id) = RUNNING
        /\ WorkerStep(w, set_status(scans_table, workers[w].scan_id, FINISHED,
                                    now))

\* the process of worker w exits
WorkerExit(w) ==
    /\ w \in 1..Len(workers)
    /\ workers[w].alive
    /\ workers' = [workers EXCEPT ![w].alive = FALSE]
    /\ Silent
    /\ UNCHANGED <<scans_table, data_manager, managers, stamped, pc, loc,
                   scan_processes>>

WorkerExits == \E w \in 1..Len(workers) : WorkerExit(w)

\* SpecCommands: the supervisor handling commands, one at a time, beside
\* the workers it has spawned
NextCommands ==
    \/ StartScanCommand(ScanIds, {"empty", "vts"}, {FALSE}, {1})
    \/ StopScanSignal(ScanIds, {1})
    \/ StopScanJoin
    \/ StopScanRespond
    \/ DeleteScanCommand(ScanIds, {1})
    \/ GetScansCommand(ScanIds, {NoMax, <<1>>}, {1})
    \/ WorkerRuns
    \/ WorkerFinishes({1})
    \/ WorkerExits

SpecCommands == Init /\ [][NextCommands]_vars

\* the registry, the handle table and the processes are what they were
DaemonUnchanged ==
    UNCHANGED <<scans_table, data_manager, managers, scan_processes, workers>>

\* C13: a start_scan request that is rejected (no target, scan_id not a
\* UUID, no scanner_params, empty vt_selection) is rejected before
\* create_scan is called: the scans table and the handle table are
\* unchanged and no worker is spawned.
C13_RejectedStartScan ==
    [][response'.cmd = "start_scan" /\ response'.kind = "error"
       => /\ response'.text \in {"No targets or ports", "Invalid scan_id UUID",
                                 "No scanner_params element",
                                 "VTs list is empty"}
          /\ response'.calls = <<>>
          /\ DaemonUnchanged]_vars

\* a start_scan rejected for its empty vt_selection, beside a scan that an
\* earlier start_scan created
C13_Witness ==
    /\ response.cmd = "start_scan"
    /\ response.kind = "error"
    /\ response.text = "VTs list is empty"
    /\ response.scan_id \in ScanIds
    /\ DOMAIN scans_table # {}
    /\ response.scan_id \notin DOMAIN scans_table

\* C14: when the create call of start_scan resolves to a resume (the given
\* scan_id exists with status STOPPED), start_scan answers 100 Continue
\* and not 200 OK.
C14_ResumeContinues ==
    [][/\ response'.cmd = "start_scan"
       /\ response'.calls # <<>>
       /\ IsResume(scans_table, response'.scan_id)
       => response'.status = 100]_vars

\* the live workers of a scan
LiveWorkers(scan_id) ==
    {w \in 1..Len(workers) : workers[w].alive /\ workers[w].scan_id = scan_id}

\* C16: at any time no two live workers run for the same scan_id, and the
\* handle table holds the handle of every live worker.
C16_OneWorkerPerScan ==
    \A w \in 1..Len(workers) :
        workers[w].alive
        => /\ LiveWorkers(workers[w].scan_id) = {w}
           /\ workers[w].scan_id \in DOMAIN scan_processes
           /\ scan_processes[workers[w].scan_id] = w

\* the worker registered for a scan is alive
RegisteredAlive(scan_id) ==
    /\ scan_id \in DOMAIN scan_processes
    /\ workers[scan_processes[scan_id]].alive

\* C15: the 200 OK of a stop_scan naming a scan with a registered worker
\* handle is produced only once the registry was told to stop the scan and
\* the join of that handle has returned: that worker is not alive when the
\* response is produced.
C15_StopAfterJoin ==
    [][response'.cmd = "stop_scan" /\ response'.status = 200
       => /\ scan_exists(scans_table, response'.scan_id)
          /\ get_status(scans_table, response'.scan_id) = STOPPED
          /\ ~RegisteredAlive(response'.scan_id)]_vars

\* stop_scan has answered for a scan whose registered worker has exited
C15_Witness ==
    /\ response.cmd = "stop_scan"
    /\ response.status = 200
    /\ response.scan_id \in DOMAIN scan_processes
    /\ ~workers[scan_processes[response.scan_id]].alive
    /\ get_status(scans_table, response.scan_id) = STOPPED

\* C17: delete_scan and get_scans look at the worker of a scan before they
\* read, report or delete it, for one scan and for all: RUNNING is never
\* reported, and never refuses a deletion, for a scan whose registered
\* worker has exited.
C17_ReconciledFirst ==
    [][/\ response'.cmd = "get_scans"
          => \A scan_id \in DOMAIN response'.scans :
                 response'.scans[scan_id] = RUNNING
                 => RegisteredAlive(scan_id)
       /\ response'.cmd = "delete_scan" /\ response'.kind = "error"
          => RegisteredAlive(response'.scan_id)]_vars

\* get_scans has listed two scans, one RUNNING and one that it found
\* RUNNING with its worker gone and reported STOPPED
C17_Witness ==
    /\ response.cmd = "get_scans"
    /\ \E a, b \in DOMAIN response.scans :
           /\ response.scans[a] = RUNNING
           /\ response.scans[b] = STOPPED
           /\ ~RegisteredAlive(b)
           /\ scans_table[b].end_time # 0

\* C18: delete_scan on an existing scan that is RUNNING after the check of
\* its process raises a command error and the record stays; on an unknown
\* or missing scan_id it answers 404 and calls no mutator.
C18_DeleteScanCommand ==
    [][response'.cmd = "delete_scan"
       => IF ~scan_exists(scans_table, response'.scan_id)
          THEN /\ response'.kind = "response"
               /\ response'.status = 404
               /\ response'.calls = <<>>
               /\ DaemonUnchanged
          ELSE IF /\ scan_exists(scans_table', response'.scan_id)
                  /\ get_status(scans_table', response'.scan_id) = RUNNING
          THEN /\ response'.kind = "error"
               /\ response'.text = "Scan in progress"
               /\ scans_table' = scans_table
          ELSE /\ response'.kind = "response"
               /\ response'.status = 200
               /\ ~scan_exists(scans_table', response'.scan_id)]_vars

\* a delete_scan refused for a scan that is RUNNING with a live worker
C18_Witness ==
    /\ response.cmd = "delete_scan"
    /\ response.kind = "error"
    /\ scan_exists(scans_table, response.scan_id)
    /\ get_status(scans_table, response.scan_id) = RUNNING
    /\ RegisteredAlive(response.scan_id)

----------------------------------------------------------------------------
\* GetVts.handle_xml, a generator: one step per next() of the consumer

MaxVts == 2             \* vulnerability tests in the collection

\* the collection daemon.vts with its first n tests, in its order
VtCollection(n) == [i \in 1..n |-> "vt" \o ToString(i)]
UnknownVt == "vt0"

\* a filter is <<>> for None, <<m>> for one that the tests of m match
NoFilter == <<>>

\* vts_filter.get_filtered_vts_list(vts, vt_filter)
get_filtered_vts_list(vts, vt_filter) ==
    SelectSeq(vts, LAMBDA vt : vt \in vt_filter[1])

\* daemon.get_vts_selection_list(vt_id, filtered_vts); filtered is <<>>
\* for None, <<list>> for a list
get_vts_selection_list(vts, vt_id, filtered) ==
    IF filtered # <<>> THEN filtered[1]
    ELSE IF vt_id \notin {NoAttr, ""} THEN <<vt_id>>
    ELSE vts

\* the fragments of XmlStringHelper
Fragment(tag, end, attrs, vt) ==
    [tag |-> tag, end |-> end, attrs |-> attrs, vt |-> vt]
create_response(cmd, end) == Fragment(cmd \o "_response", end, EmptyDict, "")
create_element(tag, end) == Fragment(tag, end, EmptyDict, "")
add_attr(fragment, name, value) ==
    [fragment EXCEPT !.attrs = DictSet(fragment.attrs, name, value)]

\* xml_helper.add_element(daemon.get_vt_xml(vt))
get_vt_xml(vt, vt_details) ==
    Fragment("vt", FALSE, [details |-> vt_details], vt)

\* the locals of a generator that has not run yet
GetVts_locals(req) ==
    [at |-> "start", req |-> req, filtered |-> <<>>, selection |-> <<>>,
     rest |-> <<>>]

GetVts_raise(l) ==
    [kind |-> "raise", fragment |-> create_element("", FALSE), l |-> l]
GetVts_yield(fragment, l) ==
    [kind |-> "yield", fragment |-> fragment, l |-> l]

\* the start of the generator without the test of vt_id
GetVts_start_unchecked(l) ==
    LET req == l.req
        filtered == IF req.filter # NoFilter
                    THEN <<get_filtered_vts_list(req.vts, req.filter)>>
                    ELSE <<>>
        vts_selection == get_vts_selection_list(req.vts, req.vt_id, filtered)
    IN  GetVts_yield(create_response("get_vts", FALSE),
                     [l EXCEPT !.at = "head", !.filtered = filtered,
                               !.selection = vts_selection])

\* how the generator runs from the start to its first yield
GetVts_start(l) ==
    LET req == l.req
        filtered == IF req.filter # NoFilter
                    THEN <<get_filtered_vts_list(req.vts, req.filter)>>
                    ELSE <<>>
        vts_selection == get_vts_selection_list(req.vts, req.vt_id, filtered)
    IN  IF req.vt_id \notin {NoAttr, ""} /\ req.vt_id \notin Elems(req.vts)
        THEN GetVts_raise(l)
        ELSE GetVts_yield(create_response("get_vts", FALSE),
                          [l EXCEPT !.at = "head", !.filtered = filtered,
                                    !.selection = vts_selection])

\* the opening vts tag
begin_vts_tag(l) ==
    LET total == add_attr(create_element("vts", FALSE), "total",
                          Len(l.req.vts))
        sent == IF l.filtered # <<>> /\ l.filtered[1] # <<>>
                THEN add_attr(total, "sent", Len(l.filtered[1]))
                ELSE total
    IN  IF l.req.sha256_hash # NoAttr
        THEN add_attr(sent, "sha256_hash", l.req.sha256_hash)
        ELSE sent

\* a generator that ends the document without closing the vts element
GetVts_resume_unclosed(l) ==
    IF l.at = "start" THEN GetVts_start(l)
    ELSE IF l.at = "head"
    THEN GetVts_yield(begin_vts_tag(l),
                      [l EXCEPT !.at = "body", !.rest = l.selection])
    ELSE IF l.at = "body" /\ l.rest # <<>>
    THEN GetVts_yield(get_vt_xml(Head(l.rest), l.req.details # "0"),
                      [l EXCEPT !.rest = Tail(l.rest)])
    ELSE IF l.at = "body"
    THEN GetVts_yield(create_response("get_vts", TRUE),
                      [l EXCEPT !.at = "last"])
    ELSE [kind |-> "stop", fragment |-> create_element("", FALSE), l |-> l]

\* GetVts.handle_xml: what one next() of the consumer runs, from where the
\* generator stands to its next yield, its raise or its end
GetVts_resume(l) ==
    IF l.at = "start" THEN GetVts_start(l)
    ELSE IF l.at = "head"
    THEN GetVts_yield(begin_vts_tag(l),
                      [l EXCEPT !.at = "body", !.rest = l.selection])
    ELSE IF l.at = "body" /\ l.rest # <<>>
    THEN GetVts_yield(get_vt_xml(Head(l.rest), l.req.details # "0"),
                      [l EXCEPT !.rest = Tail(l.rest)])
    ELSE IF l.at = "body"
    THEN GetVts_yield(create_element("vts", TRUE), [l EXCEPT !.at = "end"])
    ELSE IF l.at = "end"
    THEN GetVts_yield(create_response("get_vts", TRUE),
                      [l EXCEPT !.at = "last"])
    ELSE [kind |-> "stop", fragment |-> create_element("", FALSE), l |-> l]

GetVtsRequests ==
    [vts : {VtCollection(n) : n \in 0..MaxVts},
     vt_id : {NoAttr, "", UnknownVt} \cup Elems(VtCollection(MaxVts)),
     filter : {NoFilter} \cup {<<m>> : m \in SUBSET Elems(VtCollection(MaxVts))},
     details : {NoAttr, "0"},
     sha256_hash : {NoAttr, "hash"}]

StreamUnchanged ==
    UNCHANGED <<scans_table, data_manager, managers, last, stamped, appended,
                drained, scan_processes, workers>>

\* handle_xml(xml) is called: the generator is made, none of it runs
GetVtsCall ==
    \E req \in GetVtsRequests :
        /\ Idle("supervisor")
        /\ Goto("supervisor", "get_vts", GetVts_locals(req))
        /\ stream' = <<>>
        /\ response' = NoResponse
        /\ StreamUnchanged

\* the consumer asks for the next fragment
GetVtsNext ==
    /\ pc["supervisor"] = "get_vts"
    /\ LET r == GetVts_resume(loc["supervisor"])
       IN  IF r.kind = "yield"
           THEN /\ stream' = Append(stream, r.fragment)
                /\ response' = NoResponse
                /\ Goto("supervisor", "get_vts", r.l)
           ELSE /\ stream' = stream
                /\ response' =
                       [name |-> "get_vts",
                        kind |-> IF r.kind = "raise" THEN "error" ELSE "end",
                        cmd |-> "get_vts",
                        status |-> IF r.kind = "raise" THEN 404 ELSE 200,
                        text |-> IF r.kind = "raise"
                                 THEN "Failed to find vulnerability test"
                                 ELSE "",
                        scan_id |-> NoId, id |-> NoId, scans |-> EmptyDict,
                        calls |-> <<>>]
                /\ Goto("supervisor", "idle", r.l)
    /\ StreamUnchanged

\* SpecVts: get_vts requests, one after the other
NextVts == GetVtsCall \/ GetVtsNext

SpecVts == Init /\ [][NextVts]_vars

\* the request of the generator names a test that is not in the collection
UnknownVtId(l) ==
    /\ l.req.vt_id \notin {NoAttr, ""}
    /\ \A i \in 1..Len(l.req.vts) : l.req.vts[i] # l.req.vt_id

\* C19: get_vts with a vt_id that is not in the collection fails with a
\* command error of status 404 before the stream yields any fragment: no
\* opening, VT or closing fragment is emitted.
C19_UnknownVtNoStream ==
    [][pc["supervisor"] = "get_vts" /\ UnknownVtId(loc["supervisor"])
       => /\ stream = <<>>
          /\ stream' = <<>>
          /\ response'.kind = "error"
          /\ response'.cmd = "get_vts"
          /\ response'.status = 404]_vars

\* a get_vts for an unknown test of a collection of two has failed
C19_Witness ==
    /\ response.cmd = "get_vts"
    /\ response.kind = "error"
    /\ response.status = 404
    /\ loc["supervisor"].req.vt_id = UnknownVt
    /\ Len(loc["supervisor"].req.vts) = 2
    /\ stream = <<>>

\* C20: the fragments of a get_vts that succeeds are, in this order: the
\* opening response, the opening vts with total, one fragment per selected
\* VT in the order of the selection, the closing vts, the closing
\* response; and no fragment is emitted out of this order on the way.
ExpectedAt(i, fragment, l) ==
    LET n == Len(l.selection)
    IN  IF i = 1 THEN fragment.tag = "get_vts_response" /\ ~fragment.end
        ELSE IF i = 2
        THEN /\ fragment.tag = "vts" /\ ~fragment.end
             /\ fragment.attrs.total = Len(l.req.vts)
        ELSE IF i <= n + 2
        THEN fragment.tag = "vt" /\ fragment.vt = l.selection[i - 2]
        ELSE IF i = n + 3 THEN fragment.tag = "vts" /\ fragment.end
        ELSE /\ i = n + 4
             /\ fragment.tag = "get_vts_response" /\ fragment.end

C20_WellNestedStream ==
    [][LET ended == response'.cmd = "get_vts" /\ response'.kind = "end"
           yielded == pc'["supervisor"] = "get_vts" /\ stream' # <<>>
       IN  /\ (yielded \/ ended)
              => \A i \in 1..Len(stream') :
                     ExpectedAt(i, stream'[i], loc'["supervisor"])
           /\ ended
              => Len(stream') = Len(loc'["supervisor"].selection) + 4]_vars

\* a stream of two VTs, chosen by a filter, has ended
C20_Witness ==
    /\ response.cmd = "get_vts"
    /\ response.kind = "end"
    /\ Len(stream) = 6
    /\ stream[3].vt # stream[4].vt
    /\ "sent" \in DOMAIN stream[2].attrs

----------------------------------------------------------------------------
\* The handlers that read nothing of the scans: help, get_version,
\* get_performance, get_scanner_details, get_memory_usage.  Of a response
\* the tag, the status and the status text are kept; the payload is not.

\* a response or an error that leaves the daemon as it is
Plain(out) ==
    Outcome(out, NoId, EmptyDict, <<>>, scans_table, data_manager, managers,
            scan_processes, workers)

HelpCommand_handle_xml(help_format) ==
    IF help_format = NoAttr \/ help_format = "text"
    THEN Response("help", 200, "OK")
    ELSE IF help_format = "xml"
    THEN Response("help", 200, "OK")
    ELSE CommandError("help", 0, "Bogus help format")

GetVersion_handle_xml == Response("get_version", 200, "OK")

\* int(s) returns for these strings and raises ValueError for the others
IntStrings == {"0", "1", "-1"}

\* the titles that match one of GVMCG_TITLES from their start, and those of
\* them without any of | & ;
MatchingTitles == {"mem", "proc", "mem;reboot"}
AllowedTitles == {"mem", "proc"}

\* tool_ok: subprocess.check_output(cmd) returned
GetPerformance_handle_xml(req, tool_ok) ==
    LET cmd == "get_performance"
    IN  IF req.start \notin {NoAttr, ""} /\ req.start \notin IntStrings
        THEN CommandError(cmd, 0, "Start argument must be integer.")
        ELSE IF req.end \notin {NoAttr, ""} /\ req.end \notin IntStrings
        THEN CommandError(cmd, 0, "End argument must be integer.")
        ELSE IF /\ req.titles \notin {NoAttr, ""}
                /\ ~(req.titles \in MatchingTitles
                     /\ req.titles \in AllowedTitles)
        THEN CommandError(cmd, 0, "Arguments not allowed")
        ELSE IF ~tool_ok
        THEN CommandError(cmd, 0, "Bogus get_performance format.")
        ELSE Response(cmd, 200, "OK")

GetScannerDetails_handle_xml == Response("get_scanner_details", 200, "OK")

GetMemoryUsage_handle_xml(unit) == Response("get_memory", 200, "OK")

HelpCall ==
    \E help_format \in {NoAttr, "text", "xml", "json"} :
        /\ Idle("supervisor")
        /\ Answer("help", Plain(HelpCommand_handle_xml(help_format)), NoId)
        /\ UNCHANGED concVars

GetVersionCall ==
    /\ Idle("supervisor")
    /\ Answer("get_version", Plain(GetVersion_handle_xml), NoId)
    /\ UNCHANGED concVars

GetPerformanceRequests ==
    [start : {NoAttr, "1", "x"}, end : {NoAttr, "1", "x"},
     titles : {NoAttr, "mem", "mem;reboot", "bogus"}]

GetPerformanceCall ==
    \E req \in GetPerformanceRequests, tool_ok \in BOOLEAN :
        /\ Idle("supervisor")
        /\ Answer("get_performance",
                  Plain(GetPerformance_handle_xml(req, tool_ok)), NoId)
        /\ UNCHANGED concVars

GetScannerDetailsCall ==
    /\ Idle("supervisor")
    /\ Answer("get_scanner_details", Plain(GetScannerDetails_handle_xml),
              NoId)
    /\ UNCHANGED concVars

GetMemoryUsageCall ==
    \E unit \in {NoAttr, "b", "kb", "MB"} :
        /\ Idle("supervisor")
        /\ Answer("get_memory_usage", Plain(GetMemoryUsage_handle_xml(unit)),
                  NoId)
        /\ UNCHANGED concVars

\* SpecTags: every command that answers with one document, over one scan
NextTags ==
    \/ StartScanCommand(OneId, {"empty", "vts"}, {FALSE}, {1})
    \/ StopScanSignal(OneId, {1})
    \/ StopScanJoin
    \/ StopScanRespond
    \/ DeleteScanCommand(OneId, {1})
    \/ GetScansCommand(OneId, {NoMax}, {1})
    \/ WorkerRuns
    \/ WorkerExits
    \/ HelpCall
    \/ GetVersionCall
    \/ GetPerformanceCall
    \/ GetScannerDetailsCall
    \/ GetMemoryUsageCall

SpecTags == Init /\ [][NextTags]_vars

\* C21: every response document is tagged with the name of the command
\* that produced it: whatever help, get_version, get_performance,
\* get_scanner_details, delete_scan, stop_scan, get_scans, start_scan or
\* get_memory_usage returns carries the registered name of that command.
C21_ResponseTag ==
    response.kind = "response" => response.cmd = response.name

----------------------------------------------------------------------------
\* The progress of a target

\* sum(d.values())
RECURSIVE SumValues(_)
SumValues(d) ==
    IF DOMAIN d = {} THEN 0
    ELSE LET k == CHOOSE x \in DOMAIN d : TRUE
         IN  d[k] + SumValues(DictDel(d, {k}))

get_exclude_hosts(t, scan_id) == t[scan_id].target.exclude_hosts
get_finished_hosts(t, scan_id) == t[scan_id].target.finished_hosts

\* for finished in finished_hosts_list: remove it from exc_hosts_list if
\* it is there
RECURSIVE RemoveFound(_, _)
RemoveFound(list, hosts) ==
    IF hosts = <<>> THEN list
    ELSE RemoveFound(IF Head(hosts) \in Elems(list)
                     THEN ListRemove(list, Head(hosts)) ELSE list,
                     Tail(hosts))

\* the exclude list with every excluded host left in
simplify_exclude_host_list_keeps_all(t, scan_id) ==
    target_str_to_list(get_exclude_hosts(t, scan_id))

simplify_exclude_host_list(t, scan_id) ==
    LET exc_hosts_list == target_str_to_list(get_exclude_hosts(t, scan_id))
        finished_hosts_list ==
            target_str_to_list(get_finished_hosts(t, scan_id))
    IN  IF finished_hosts_list # <<>> /\ exc_hosts_list # <<>>
        THEN RemoveFound(exc_hosts_list, finished_hosts_list)
        ELSE exc_hosts_list

\* [raised, num, den]: the float num / den, or ZeroDivisionError
calculate_target_progress(t, scan_id) ==
    LET host == get_host_list(t, scan_id)
        total_hosts == Len(target_str_to_list(host))
        exc_hosts_list == simplify_exclude_host_list(t, scan_id)
        exc_hosts == IF exc_hosts_list # <<>> THEN Len(exc_hosts_list) ELSE 0
        host_progresses == t[scan_id].target_progress
    IN  [raised |-> total_hosts - exc_hosts = 0,
         num |-> SumValues(host_progresses),
         den |-> total_hosts - exc_hosts]

calculate_target_progress_call(ids) ==
    \E scan_id \in ids :
        /\ id_exists(scans_table, scan_id)
        /\ LET r == calculate_target_progress(scans_table, scan_id)
           IN  TableCall(scans_table,
                         Call("calculate_target_progress", scan_id, r,
                              IF r.raised THEN "ZeroDivisionError"
                              ELSE "float"))

\* SpecTarget: the progress of a target of four hosts, some excluded, some
\* declared finished by the client
TargetInputs ==
    [hosts : {<< <<1, 4>> >>},
     exclude_hosts : {<<>>, << <<1, 1>> >>, << <<1, 2>> >>, << <<1, 4>> >>},
     finished_hosts : {<<>>, << <<1, 1>> >>, << <<2, 3>> >>}]

NextTarget ==
    \/ create_scan_of(OneId, TargetInputs, {EmptyDict}, VtsInputs, {1})
    \/ set_host_progress_call(OneId, {2, 3}, {50, 100})
    \/ calculate_target_progress_call(OneId)

SpecTarget == Init /\ [][NextTarget]_vars

\* the hosts a host-range expression names
HostsOf(expr) == UNION {r[1]..r[2] : r \in Elems(expr)}

\* total hosts minus the excluded hosts that the client did not declare
\* finished
EffectiveHosts(scan_info) ==
    Cardinality(HostsOf(scan_info.target.hosts))
    - Cardinality(HostsOf(scan_info.target.exclude_hosts)
                  \ HostsOf(scan_info.target.finished_hosts))

\* the sum of the values of a per-host progress map, host by host
RECURSIVE SumOver(_, _)
SumOver(d, hosts) ==
    IF hosts = {} THEN 0
    ELSE LET h == CHOOSE x \in hosts : TRUE
         IN  d[h] + SumOver(d, hosts \ {h})

\* C22: calculate_target_progress returns the sum of the per-host progress
\* values divided by (hosts of the target minus the excluded hosts left
\* once the hosts the client declared finished are taken out); it raises
\* a division error when that number is zero; it never changes the record.
C22_TargetProgress ==
    [][last'.op = "calculate_target_progress"
       => LET scan_info == scans_table[last'.id]
              sum == SumOver(scan_info.target_progress,
                             DOMAIN scan_info.target_progress)
              n == EffectiveHosts(scan_info)
          IN  /\ scans_table' = scans_table
              /\ n = 0 => last'.ret = "ZeroDivisionError"
              /\ n # 0 => /\ last'.ret = "float"
                          /\ last'.arg.num * n = sum * last'.arg.den
                          /\ last'.arg.den # 0]_vars

\* four hosts, host 1 excluded, host 2 at 50 and host 3 at 100: 150 / 3
C22_Witness ==
    /\ last.op = "calculate_target_progress"
    /\ last.ret = "float"
    /\ scans_table[last.id].target.exclude_hosts = << <<1, 1>> >>
    /\ scans_table[last.id].target.finished_hosts = <<>>
    /\ scans_table[last.id].target_progress = (2 :> 50) @@ (3 :> 100)
    /\ last.arg.num = 150
    /\ last.arg.den = 3

----------------------------------------------------------------------------
\* Claims on the lists and the progress values of one scan

NoDuplicates(s) == \A i, j \in 1..Len(s) : s[i] = s[j] => i = j

\* C23: set_host_finished is idempotent: a second call with the same host
\* leaves the list that the first call left, and after any calls the list
\* of finished hosts holds each host once, in the order of first insertion.
C23_HostFinishedOnce ==
    [][last'.op = "set_host_finished"
       => LET old == scans_table[last'.id].finished_hosts
              new == scans_table'[last'.id].finished_hosts
              host == last'.arg.host
          IN  /\ host \in Elems(old) => new = old
              /\ host \notin Elems(old) => new = Append(old, host)
              /\ NoDuplicates(new)
              /\ set_host_finished(scans_table', last'.id, host)
                     = scans_table']_vars

\* host 2 was marked finished before host 1, and now once more
C23_Witness ==
    /\ last.op = "set_host_finished"
    /\ last.arg.host = 2
    /\ scans_table[last.id].finished_hosts = <<2, 1>>

\* C24: add_result with name and value both empty fails and leaves the
\* buffer as it is; otherwise it appends one result at the end and leaves
\* the results buffered before unchanged and in their order.
C24_AddResult ==
    [][last'.op = "add_result"
       => LET old == scans_table[last'.id].results
              new == scans_table'[last'.id].results
          IN  IF last'.arg.name = "" /\ last'.arg.value = ""
              THEN /\ last'.ret = "AssertionError"
                   /\ scans_table' = scans_table
              ELSE /\ last'.ret = "None"
                   /\ Len(new) = Len(old) + 1
                   /\ new[Len(new)] = last'.arg
                   /\ \A i \in 1..Len(old) : new[i] = old[i]]_vars

\* an add_result without name and value has failed on a buffer of two
C24_Witness ==
    /\ last.op = "add_result"
    /\ last.ret = "AssertionError"
    /\ last.arg.name = "" /\ last.arg.value = ""
    /\ Len(scans_table[last.id].results) = 2

\* SpecBounds: the progress values of one scan under any integer argument
NextBounds ==
    \/ create_scan_call(OneId, {EmptyDict}, {1})
    \/ set_status_call(OneId, {STOPPED}, {1})
    \/ set_progress_call(OneId, {1})
    \/ set_host_progress_call(OneId, {1, 2}, ProgressInputs)

SpecBounds == Init /\ [][NextBounds]_vars

\* C25: after any create_scan, resume, set_progress and set_host_progress
\* calls the progress of a scan is in 0..100 and every per-host progress
\* is in 1..100; set_host_progress with a percent <= 0 or > 100 changes
\* nothing, and with a percent in range it changes the entry of the named
\* host and nothing else.
C25_ProgressBounds ==
    [][/\ \A scan_id \in DOMAIN scans_table' :
              LET scan_info == scans_table'[scan_id]
              IN  /\ scan_info.progress \in 0..100
                  /\ \A host \in DOMAIN scan_info.target_progress :
                         scan_info.target_progress[host] \in 1..100
       /\ last'.op = "set_host_progress"
          => LET old == scans_table[last'.id]
                 new == scans_table'[last'.id]
                 host == last'.arg.host
                 percent == last'.arg.progress
             IN  IF percent <= 0 \/ percent > 100
                 THEN scans_table' = scans_table
                 ELSE /\ DOMAIN new.target_progress
                             = DOMAIN old.target_progress \cup {host}
                      /\ new.target_progress[host] = percent
                      /\ \A h \in DOMAIN old.target_progress \ {host} :
                             new.target_progress[h] = old.target_progress[h]
                      /\ [new EXCEPT !.target_progress = <<>>]
                             = [old EXCEPT !.target_progress = <<>>]]_vars

\* a resumed scan at progress 50 with host 1 at 100, after a
\* set_host_progress of 101 for host 2 that changed nothing
C25_Witness ==
    /\ last.op = "set_host_progress"
    /\ last.arg.progress = 101
    /\ last.arg.host = 2
    /\ scans_table[last.id].progress = 50
    /\ scans_table[last.id].status = INIT
    /\ scans_table[last.id].end_time = 0
    /\ scans_table[last.id].target_progress = (1 :> 100)

----------------------------------------------------------------------------
\* Claims on what a resume changes in the record

\* the targets and the vts a resume call may carry: the ones the scan was
\* created with and different ones
ResumeTargets ==
    Targets \cup {[hosts |-> << <<1, 3>> >>, exclude_hosts |-> <<>>,
                   finished_hosts |-> <<>>]}

ResumeVts == {"vts", "other_vts"}

NextFrame ==
    \/ create_scan_of(OneId, ResumeTargets, OptionInputs, ResumeVts, Times)
    \/ set_status_call(OneId, {STOPPED}, {1})
    \/ set_progress_call(OneId, {1})
    \/ set_host_progress_call(OneId, {1}, {50})
    \/ set_host_finished_call(OneId, {1, 3})

SpecFrame == Init /\ [][NextFrame]_vars

ResumeFrame == {"target", "vts", "progress", "target_progress",
                "finished_hosts", "start_time"}

\* C26: a create_scan that resumes stores the options of the call when
\* they are not empty and keeps the stored options when they are empty; it
\* leaves target, vts, progress, the per-host progress, the finished hosts
\* and start_time as they were, whatever target and vts the call carries.
C26_ResumeFrame ==
    [][(last'.op = "create_scan" /\ IsResume(scans_table, last'.id))
       => LET old == scans_table[last'.id]
              new == scans_table'[last'.id]
          IN  /\ new.options = IF DOMAIN last'.arg.options # {}
                               THEN last'.arg.options
                               ELSE old.options
              /\ \A field \in ResumeFrame : new[field] = old[field]]_vars

\* a scan created at time 1 with options o1 = "a", at progress 50 with
\* host 1 finished, resumed at time 2 by a call with empty options and
\* with another target and other vts
C26_Witness ==
    /\ last.op = "create_scan"
    /\ last.arg.options = EmptyDict
    /\ last.ret = last.id
    /\ scans_table[last.id].options = [o1 |-> "a"]
    /\ scans_table[last.id].target # last.arg.target
    /\ scans_table[last.id].vts # last.arg.vts
    /\ scans_table[last.id].progress = 50
    /\ scans_table[last.id].finished_hosts = <<1>>
    /\ scans_table[last.id].target_progress = (1 :> 50)
    /\ scans_table[last.id].start_time = 1
    /\ scans_table[last.id].status = INIT

\* C27: a create_scan on a STOPPED scan that fails while computing the
\* unfinished hosts leaves the record as it was: status STOPPED, and
\* end_time, options and results as before the call.
C27_ResumeAllOrNothing ==
    [][(/\ last'.op = "create_scan"
        /\ IsResume(scans_table, last'.id)
        /\ last'.ret = "ValueError")
       => /\ scans_table'[last'.id] = scans_table[last'.id]
          /\ scans_table'[last'.id].status = STOPPED]_vars

----------------------------------------------------------------------------
\* stop_scan under fairness: the handler thread keeps running, and a worker
\* exits once its scan is STOPPED

\* a scan put in the registry with no worker started for it
RegisterScan ==
    \E scan_id \in OneId, target \in Targets :
        LET r == daemon_create_scan(scans_table, data_manager, managers,
                                    scan_id, target, EmptyDict, "vts", 1,
                                    scan_id)
        IN  /\ Idle("supervisor")
            /\ DOMAIN scans_table = {}
            /\ data_manager = None => managers < MaxManagers
            /\ scans_table' = r.t
            /\ data_manager' = r.dm
            /\ managers' = r.managers
            /\ stamped' = StampedAfter(r.t)
            /\ Silent
            /\ UNCHANGED <<pc, loc, scan_processes, workers>>

\* worker w follows the stop of its scan
WorkerExitStopped(w) ==
    /\ w \in 1..Len(workers)
    /\ id_exists(scans_table, workers[w].scan_id)
    /\ get_status(scans_table, workers[w].scan_id) = STOPPED
    /\ WorkerExit(w)

NextStop ==
    \/ RegisterScan
    \/ StartScanCommand(ScanIds, {"vts"}, {FALSE}, {1})
    \/ StopScanSignal(ScanIds, {1})
    \/ StopScanJoin
    \/ StopScanRespond
    \/ WorkerRuns
    \/ WorkerFinishes({1})
    \/ WorkerExits

StopFairness ==
    /\ WF_vars(StopScanJoin)
    /\ WF_vars(StopScanRespond)
    /\ \A w \in 1..MaxWorkers : WF_vars(WorkerExitStopped(w))

SpecStop == Init /\ [][NextStop]_vars /\ StopFairness

\* a stop_scan request for scan_id has been taken up
StopRequested(scan_id) ==
    \/ pc["supervisor"] = "stop_join" /\ loc["supervisor"].scan_id = scan_id
    \/ response.name = "stop_scan" /\ response.scan_id = scan_id

StopReturned(scan_id) ==
    /\ response.name = "stop_scan"
    /\ response.scan_id = scan_id
    /\ response.kind = "response"
    /\ response.status = 200

\* the stop_scan requests that name a scan of the registry
StopOfKnownScan ==
    \A scan_id \in ScanIds :
        (pc["supervisor"] = "stop_join" /\ loc["supervisor"].scan_id = scan_id)
            ~> StopReturned(scan_id)

\* a stop_scan with no handle for its scan does not wait
StopNoHandle ==
    [](/\ pc["supervisor"] = "stop_join"
       /\ loc["supervisor"].scan_id \notin DOMAIN scan_processes
       => ENABLED StopScanJoin)

\* a stop_scan with no scan_id is refused before anything is stopped
StopNoScanId ==
    [][response'.name = "stop_scan" /\ response'.scan_id \in {NoAttr, NoId}
       => /\ response'.kind = "error"
          /\ response'.text = "No scan_id attribute"
          /\ response'.calls = <<>>
          /\ pc' = pc
          /\ DaemonUnchanged]_vars

\* C28: if every worker exits once its scan is STOPPED, every stop_scan
\* request with a non-empty scan_id is in the end answered 200 OK; with no
\* handle registered for the scan_id the request does not wait, and a
\* request with a missing or empty scan_id is refused with nothing stopped
\* or joined.
C28_StopScanReturns ==
    /\ \A scan_id \in ScanIds : StopRequested(scan_id) ~> StopReturned(scan_id)
    /\ StopNoHandle
    /\ StopNoScanId

\* a stop_scan of a registered scan that has no handle, about to return
StopNoHandleReached ==
    /\ pc["supervisor"] = "stop_respond"
    /\ loc["supervisor"].scan_id \notin DOMAIN scan_processes
    /\ get_status(scans_table, loc["supervisor"].scan_id) = STOPPED

====
